---- MODULE Spec2Model ----
(***************************************************************************)
(* Shape-level model of the tabular models of pytorch-widedeep:            *)
(*   TabResnet / DenseResnet / BasicBlock   (models/tab_resnet.py)         *)
(*   TabTransformer                         (tabular/transformers/...)     *)
(*   QueryKeySelfAttention                  (tabular/mlp/_attention_...)   *)
(* A tensor is modelled by its shape without the batch axis, plus the list *)
(* of layer applications that produced it.  A layer is modelled by the     *)
(* widths it was built with; applying it to a tensor of another width      *)
(* raises, as the tensor library does.  Numeric values, dropout rates and  *)
(* activations do not change any shape and are left out.                   *)
(***************************************************************************)
EXTENDS Integers, Sequences, FiniteSets, TLC

VARIABLES
    cls,      \* class being instantiated
    args,     \* constructor arguments
    pc,       \* "new" | "constructed" | "raised"
    self,     \* the object's attributes after __init__ (err = exception raised)
    out,      \* result of the last forward call
    weights   \* result of the last read of the attention_weights property

vars == <<cls, args, pc, self, out, weights>>

----------------------------------------------------------------------------
(* Bounds of the model *)
MaxDim == 2        \* the widths of blocks_dims range over 1..MaxDim
MaxBlocksLen == 3  \* longest blocks_dims list
MaxCat == 2        \* most categorical columns
MaxCont == 2       \* most continuous columns
MaxMlpLen == 1     \* longest mlp_hidden_dims list
MaxInputDim == 4   \* largest input_dim of the attention models
MaxHeads == 3      \* largest n_heads
MaxBlocks == 2     \* largest n_blocks
MaxSeq == 2        \* longest sequence fed to QueryKeySelfAttention.forward

----------------------------------------------------------------------------
(* Python values *)

\* Optional[List]: None, or a list
None == [isNone |-> TRUE, v |-> <<>>]
Some(l) == [isNone |-> FALSE, v |-> l]

Last(s) == s[Len(s)]

RECURSIVE SumSeq(_)
SumSeq(s) == IF s = <<>> THEN 0 ELSE s[1] + SumSeq(Tail(s))

SeqsUpTo(S, lo, hi) == UNION {[1..n -> S] : n \in lo..hi}

Dims == 1..MaxDim
EmbedDims == {1, 2}   \* embedding widths tried
MlpDims == {1, 2}     \* mlp_hidden_dims widths tried

(* Tensors: shape without the batch axis; hist = layer applications so far *)
Tensor(shape, hist) == [err |-> "none", shape |-> shape, hist |-> hist]
Raise(e) == [err |-> e, shape |-> <<>>, hist |-> <<>>]
NoTensor == Raise("unset")
Ok(x) == x.err = "none"
Width(x) == Last(x.shape)
SetWidth(x, w) == [x EXCEPT !.shape = [x.shape EXCEPT ![Len(x.shape)] = w]]
Op(name, idx, inw, outw) == [op |-> name, idx |-> idx, inw |-> inw, outw |-> outw]
Note(x, name, idx, inw) ==
    IF Ok(x) THEN [x EXCEPT !.hist = Append(x.hist, Op(name, idx, inw, Width(x)))]
    ELSE x

(* Layers of the tensor library *)
Module(name, idx, kind, inp, outd, resize) ==
    [name |-> name, idx |-> idx, kind |-> kind, inp |-> inp, out |-> outd,
     resize |-> resize]

\* nn.Linear(inp, out) applied to x
Linear(inp, outd, x) ==
    IF ~Ok(x) THEN x
    ELSE IF Width(x) # inp THEN Raise("RuntimeError")
    ELSE SetWidth(x, outd)

\* nn.BatchNorm1d(n) applied to a 2-D x
BatchNorm1d(n, x) ==
    IF ~Ok(x) THEN x
    ELSE IF Width(x) # n THEN Raise("RuntimeError")
    ELSE x

\* out += identity (in place: identity must broadcast to out's shape)
AddInPlace(o, identity) ==
    IF ~Ok(o) THEN o
    ELSE IF ~Ok(identity) THEN identity
    ELSE IF Width(identity) = Width(o) \/ Width(identity) = 1 THEN o
    ELSE Raise("RuntimeError")

\* torch.cat([x, y], 1) of two 2-D tensors
Cat(x, y) ==
    IF ~Ok(x) THEN x
    ELSE IF ~Ok(y) THEN y
    ELSE SetWidth(x, Width(x) + Width(y))

----------------------------------------------------------------------------
(* BasicBlock *)

BasicBlock(idx, inp, outd, resize) ==
    Module("block", idx, "BasicBlock", inp, outd, resize)

BasicBlock_forward(m, x) ==
    LET o1 == BatchNorm1d(m.out, Linear(m.inp, m.out, x))
        o2 == BatchNorm1d(m.out, Linear(m.out, m.out, o1))
        identity == IF m.resize.present
                    THEN BatchNorm1d(m.resize.out, Linear(m.resize.inp, m.resize.out, x))
                    ELSE x
    IN AddInPlace(o2, identity)

NoResize == [present |-> FALSE, inp |-> 0, out |-> 0]
Resize(inp, outd) == [present |-> TRUE, inp |-> inp, out |-> outd]

----------------------------------------------------------------------------
(* MLP (pytorch_widedeep.models.tab_mlp): one dense layer per consecutive   *)
(* pair of d_hidden, dense_layer_{i-1} : d_hidden[i-1] -> d_hidden[i]       *)

MLP(d_hidden) ==
    [i \in 1..(Len(d_hidden) - 1) |->
        Module("dense_layer", i - 1, "dense_layer", d_hidden[i], d_hidden[i + 1], NoResize)]

----------------------------------------------------------------------------
(* nn.Sequential.forward: the modules in the order they were added *)

Module_forward(m, x) ==
    CASE m.kind = "Linear" -> Linear(m.inp, m.out, x)
      [] m.kind = "BatchNorm1d" -> BatchNorm1d(m.inp, x)
      [] m.kind = "BasicBlock" -> BasicBlock_forward(m, x)
      [] m.kind = "dense_layer" -> Linear(m.inp, m.out, x)
      [] OTHER -> x

RECURSIVE Sequential_forward(_, _)
Sequential_forward(mods, x) ==
    IF mods = <<>> \/ ~Ok(x) THEN x
    ELSE Sequential_forward(Tail(mods),
            Note(Module_forward(mods[1], x), mods[1].name, mods[1].idx, Width(x)))

----------------------------------------------------------------------------
(* DenseResnet *)

\* the input projection, present when input_dim differs from blocks_dims[0]
DenseResnet_input(input_dim, blocks_dims) ==
    IF input_dim # blocks_dims[1]
    THEN << Module("lin1", -1, "Linear", input_dim, blocks_dims[1], NoResize),
            Module("bn1", -1, "BatchNorm1d", blocks_dims[1], blocks_dims[1], NoResize) >>
    ELSE <<>>

\* a mutant: the loop stops one block early
DenseResnet_blocks_short(blocks_dims) ==
    [i \in 1..(Len(blocks_dims) - 2) |->
        BasicBlock(i - 1, blocks_dims[i], blocks_dims[i + 1],
                   IF blocks_dims[i] # blocks_dims[i + 1]
                   THEN Resize(blocks_dims[i], blocks_dims[i + 1]) ELSE NoResize)]

\* for i in range(1, len(blocks_dims)): block_{i-1} = BasicBlock(dims[i-1], dims[i])
DenseResnet_blocks(blocks_dims) ==
    [i \in 1..(Len(blocks_dims) - 1) |->
        BasicBlock(i - 1, blocks_dims[i], blocks_dims[i + 1],
                   IF blocks_dims[i] # blocks_dims[i + 1]
                   THEN Resize(blocks_dims[i], blocks_dims[i + 1]) ELSE NoResize)]

\* DenseResnet.__init__: err is the exception raised, dense_resnet the Sequential
DenseResnet(input_dim, blocks_dims) ==
    IF Len(blocks_dims) = 0
    THEN [err |-> "IndexError", dense_resnet |-> <<>>]
    ELSE [err |-> "none",
          dense_resnet |-> DenseResnet_input(input_dim, blocks_dims)
                           \o DenseResnet_blocks(blocks_dims)]

\* the whole pass is noted as "tab_resnet" after the entries of its modules
DenseResnet_forward(dense_resnet, X) ==
    Note(Sequential_forward(dense_resnet, X), "tab_resnet", -1,
         IF Ok(X) THEN Width(X) ELSE -1)

----------------------------------------------------------------------------
(* TabResnet.__init__ *)

\* a mutant: the bound of the length check is off by one
blocks_dims_too_short_off(blocks_dims) == Len(blocks_dims) < 1

blocks_dims_too_short(blocks_dims) == Len(blocks_dims) < 2

\* one nn.Embedding(val + 1, dim) per (col, val, dim) of embed_input; the
\* column names are the keys of column_idx, hence distinct, and the i-th
\* layer is the one looked up for the i-th column
embed_layers(embed_input) ==
    [i \in 1..Len(embed_input) |->
        Module("emb_layer", embed_input[i].col, "Embedding", 1, embed_input[i].dim, NoResize)]

emb_inp_dim(embed_input) == SumSeq([i \in 1..Len(embed_input) |-> embed_input[i].dim])

cont_inp_dim(continuous_cols) ==
    IF ~continuous_cols.isNone THEN Len(continuous_cols.v) ELSE 0

dense_resnet_input_dim(a) ==
    IF a.concat_cont_first
    THEN emb_inp_dim(a.embed_input) + cont_inp_dim(a.continuous_cols)
    ELSE emb_inp_dim(a.embed_input)

resnet_output_dim(a) ==
    IF a.concat_cont_first
    THEN Last(a.blocks_dims)
    ELSE cont_inp_dim(a.continuous_cols) + Last(a.blocks_dims)

\* a mutant: the continuous columns are forgotten
mlp_input_dim_no_cont(a) == Last(a.blocks_dims)

mlp_input_dim(a) ==
    IF a.concat_cont_first
    THEN Last(a.blocks_dims)
    ELSE cont_inp_dim(a.continuous_cols) + Last(a.blocks_dims)

TabResnetFailed(e, built) ==
    [err |-> e, built |-> built, embed_layers |-> <<>>, tab_resnet |-> <<>>,
     tab_resnet_mlp |-> <<>>, output_dim |-> -1]

TabResnet_init(a) ==
    IF blocks_dims_too_short(a.blocks_dims)
    THEN TabResnetFailed("ValueError", <<>>)
    ELSE
      LET built1 == <<"embed_layers", "embedding_dropout">>
                    \o (IF ~a.continuous_cols.isNone /\ a.batchnorm_cont
                        THEN <<"norm">> ELSE <<>>)
          resnet == DenseResnet(dense_resnet_input_dim(a), a.blocks_dims)
          mlp_hidden_dims == <<mlp_input_dim(a)>> \o a.mlp_hidden_dims.v
      IN IF resnet.err # "none"
         THEN TabResnetFailed(resnet.err, built1)
         ELSE [err |-> "none",
               built |-> built1 \o <<"tab_resnet">>
                         \o (IF ~a.mlp_hidden_dims.isNone
                             THEN <<"tab_resnet_mlp">> ELSE <<>>),
               embed_layers |-> embed_layers(a.embed_input),
               tab_resnet |-> resnet.dense_resnet,
               tab_resnet_mlp |-> IF ~a.mlp_hidden_dims.isNone
                                  THEN MLP(mlp_hidden_dims) ELSE <<>>,
               output_dim |-> IF ~a.mlp_hidden_dims.isNone
                              THEN Last(mlp_hidden_dims)
                              ELSE resnet_output_dim(a)]

----------------------------------------------------------------------------
(* TabResnet.forward *)

\* x = torch.cat(embed, 1): one embedding lookup per column of embed_input
TabResnet_embed(s, a) ==
    Note(Tensor(<<SumSeq([i \in 1..Len(a.embed_input) |-> s.embed_layers[i].out])>>, <<>>),
         "embed", -1, Len(a.embed_input))

\* x_cont = X[:, cont_idx].float(), batch-normalised when batchnorm_cont
TabResnet_x_cont(a) ==
    LET x_cont == Tensor(<<Len(a.continuous_cols.v)>>, <<>>)
    IN IF a.batchnorm_cont THEN BatchNorm1d(cont_inp_dim(a.continuous_cols), x_cont)
       ELSE x_cont

\* a mutant: the flag is ignored and the continuous columns always go first
TabResnet_place_cont_always_first(s, a, x, x_cont) ==
    DenseResnet_forward(s.tab_resnet, Note(Cat(x, x_cont), "cat_cont", -1, Width(x)))

\* the branch on concat_cont_first
TabResnet_place_cont(s, a, x, x_cont) ==
    IF a.concat_cont_first
    THEN DenseResnet_forward(s.tab_resnet, Note(Cat(x, x_cont), "cat_cont", -1, Width(x)))
    ELSE LET r == DenseResnet_forward(s.tab_resnet, x)
         IN IF Ok(r) THEN Note(Cat(r, x_cont), "cat_cont", -1, Width(r)) ELSE r

TabResnet_forward(s, a) ==
    LET x == TabResnet_embed(s, a)
        o == IF ~a.continuous_cols.isNone
             THEN TabResnet_place_cont(s, a, x, TabResnet_x_cont(a))
             ELSE DenseResnet_forward(s.tab_resnet, x)
    IN IF ~a.mlp_hidden_dims.isNone
       THEN Note(Sequential_forward(s.tab_resnet_mlp, o), "tab_resnet_mlp", -1,
                 IF Ok(o) THEN Width(o) ELSE -1)
       ELSE o

----------------------------------------------------------------------------
(* BaseTabularModelWithAttention (tabular/_base_tabular_model): keeps the   *)
(* embedding arguments and embeds every column with input_dim numbers.      *)

\* cat_and_cont_embed(X) = (x_cat, x_cont): x_cat is None without categorical
\* columns, else (n_cat, input_dim); x_cont is None without continuous columns,
\* else (n_cont, input_dim) when embedded and (n_cont) when not
cat_and_cont_embed(a) ==
    << IF a.cat_embed_input.isNone THEN Raise("None")
       ELSE Tensor(<<Len(a.cat_embed_input.v), a.input_dim>>, <<>>),
       IF a.continuous_cols.isNone THEN Raise("None")
       ELSE IF a.embed_continuous
            THEN Tensor(<<Len(a.continuous_cols.v), a.input_dim>>, <<>>)
            ELSE Tensor(<<Len(a.continuous_cols.v)>>, <<>>) >>

IsNone(x) == x.err = "None"

\* torch.cat([x, y], 1) of two (seq, dim) tensors
Cat3(x, y) == [x EXCEPT !.shape = <<x.shape[1] + y.shape[1], x.shape[2]>>]

\* _get_embeddings(X): x_cat and x_cont joined along the sequence axis
get_embeddings(a) ==
    LET e == cat_and_cont_embed(a)
    IN IF ~IsNone(e[1]) /\ ~IsNone(e[2]) THEN Cat3(e[1], e[2])
       ELSE IF ~IsNone(e[1]) THEN e[1]
       ELSE IF ~IsNone(e[2]) THEN e[2]
       ELSE Raise("UnboundLocalError")

(* TransformerEncoder (tabular/transformers/_encoders): multi-head attention *)
(* over input_dim, which its constructor asserts divisible by n_heads, then  *)
(* a feed-forward layer; attn.attn_weights is set by forward.                *)
NoWeights == [set |-> FALSE, blk |-> -1, H |-> 0, F |-> 0]

TransformerEncoder(idx, input_dim, n_heads) ==
    [err |-> IF input_dim % n_heads = 0 THEN "none" ELSE "AssertionError",
     idx |-> idx, input_dim |-> input_dim, n_heads |-> n_heads,
     attn_weights |-> NoWeights]

\* forward of block blk on x: shape kept, its attention weights (N, H, F, F) stored
TransformerEncoder_forward(blk, x) ==
    IF ~Ok(x) THEN [x |-> x, blk |-> blk]
    ELSE IF Width(x) # blk.input_dim THEN [x |-> Raise("RuntimeError"), blk |-> blk]
    ELSE [x |-> x,
          blk |-> [blk EXCEPT !.attn_weights =
                      [set |-> TRUE, blk |-> blk.idx, H |-> blk.n_heads, F |-> x.shape[1]]]]

----------------------------------------------------------------------------
(* TabTransformer.__init__ *)

n_cat(a) == IF ~a.cat_embed_input.isNone THEN Len(a.cat_embed_input.v) ELSE 0
n_cont(a) == IF ~a.continuous_cols.isNone THEN Len(a.continuous_cols.v) ELSE 0

\* a mutant: embed_continuous is not looked at
continuous_only_any(a) == n_cont(a) # 0 /\ ~(n_cat(a) # 0)

\* if self.n_cont and not self.n_cat and not self.embed_continuous: raise
continuous_only(a) == n_cont(a) # 0 /\ ~(n_cat(a) # 0) /\ ~a.embed_continuous

\* a mutant: range(1, n_blocks)
block_range_from_one(n_blocks) == [i \in 1..(n_blocks - 1) |-> i]

\* for i in range(n_blocks)
block_range(n_blocks) == [i \in 1..n_blocks |-> i - 1]

\* the Sequential of TransformerEncoder blocks, "transformer_block" + str(i)
transformer_blks(a) ==
    LET r == block_range(a.n_blocks)
    IN [k \in 1..Len(r) |-> TransformerEncoder(r[k], a.input_dim, a.n_heads)]

\* a mutant: the continuous columns are forgotten in the cls-token case
compute_attn_output_dim_no_cont(a) ==
    IF a.with_cls_token THEN a.input_dim
    ELSE IF a.embed_continuous THEN (n_cat(a) + n_cont(a)) * a.input_dim
    ELSE n_cat(a) * a.input_dim + n_cont(a)

compute_attn_output_dim(a) ==
    IF a.with_cls_token
    THEN (IF a.embed_continuous THEN a.input_dim ELSE a.input_dim + n_cont(a))
    ELSE IF a.embed_continuous THEN (n_cat(a) + n_cont(a)) * a.input_dim
    ELSE n_cat(a) * a.input_dim + n_cont(a)

\* a mutant: the two default factors are swapped
transformer_mlp_dims_swapped(attn_output_dim, mlp_hidden_dims) ==
    IF mlp_hidden_dims.isNone \/ mlp_hidden_dims.v = <<>>
    THEN <<attn_output_dim, attn_output_dim * 2, attn_output_dim * 4>>
    ELSE <<attn_output_dim>> \o mlp_hidden_dims.v

\* if not mlp_hidden_dims: the default, else [attn_output_dim] + mlp_hidden_dims
\* (None and the empty list are both falsy)
transformer_mlp_dims(attn_output_dim, mlp_hidden_dims) ==
    IF mlp_hidden_dims.isNone \/ mlp_hidden_dims.v = <<>>
    THEN <<attn_output_dim, attn_output_dim * 4, attn_output_dim * 2>>
    ELSE <<attn_output_dim>> \o mlp_hidden_dims.v

TabTransformerFailed(e, built) ==
    [err |-> e, built |-> built, transformer_blks |-> <<>>, attn_output_dim |-> -1,
     mlp_hidden_dims |-> <<>>, transformer_mlp |-> <<>>, output_dim |-> -1]

TabTransformer_init(a) ==
    IF continuous_only(a) THEN TabTransformerFailed("ValueError", <<>>)
    ELSE
      LET blks == transformer_blks(a)
          bad == {k \in 1..Len(blks) : blks[k].err # "none"}
          attn_output_dim == compute_attn_output_dim(a)
          mlp_hidden_dims == transformer_mlp_dims(attn_output_dim, a.mlp_hidden_dims)
      IN IF bad # {}
         THEN TabTransformerFailed("AssertionError", <<>>)
         ELSE [err |-> "none",
               built |-> <<"transformer_blks", "transformer_mlp">>,
               transformer_blks |-> blks,
               attn_output_dim |-> attn_output_dim,
               mlp_hidden_dims |-> mlp_hidden_dims,
               transformer_mlp |-> MLP(mlp_hidden_dims),
               output_dim |-> Last(mlp_hidden_dims)]

----------------------------------------------------------------------------
(* TabTransformer.forward and attention_weights *)

\* nn.Sequential of the blocks: [x |-> result, blks |-> the blocks afterwards]
RECURSIVE transformer_blks_forward(_, _, _)
transformer_blks_forward(blks, k, x) ==
    IF k > Len(blks) THEN [x |-> x, blks |-> blks]
    ELSE LET r == TransformerEncoder_forward(blks[k], x)
         IN transformer_blks_forward([blks EXCEPT ![k] = r.blk], k + 1, r.x)

\* x[:, 0, :]
FirstToken(x) ==
    IF ~Ok(x) THEN x
    ELSE IF x.shape[1] = 0 THEN Raise("IndexError")
    ELSE [x EXCEPT !.shape = <<x.shape[2]>>]

\* x.flatten(1)
Flatten(x) ==
    IF ~Ok(x) THEN x ELSE [x EXCEPT !.shape = <<x.shape[1] * x.shape[2]>>]

\* [out |-> the tensor returned, blks |-> the blocks afterwards]
TabTransformer_forward(s, a) ==
    LET e == cat_and_cont_embed(a)
        x0 == IF ~a.embed_continuous
              THEN (IF ~IsNone(e[1]) THEN e[1] ELSE Raise("UnboundLocalError"))
              ELSE get_embeddings(a)
        x_cont == IF ~a.embed_continuous THEN e[2] ELSE Raise("None")
        r == transformer_blks_forward(s.transformer_blks, 1, x0)
        x1 == IF a.with_cls_token THEN FirstToken(r.x) ELSE Flatten(r.x)
        x2 == IF ~IsNone(x_cont) /\ ~a.embed_continuous THEN Cat(x1, x_cont) ELSE x1
    IN [out |-> Note(Sequential_forward(s.transformer_mlp, x2), "transformer_mlp", -1,
                     IF Ok(x2) THEN Width(x2) ELSE -1),
        blks |-> r.blks]

\* a mutant: the blocks are read last to first
attention_weights_reversed(blks) ==
    IF \E k \in 1..Len(blks) : ~blks[k].attn_weights.set
    THEN [err |-> "AttributeError", v |-> <<>>]
    ELSE [err |-> "none", v |-> [k \in 1..Len(blks) |-> blks[Len(blks) + 1 - k].attn_weights]]

\* [blk.attn.attn_weights for blk in self.transformer_blks]; the attribute
\* exists once forward has set it
attention_weights(blks) ==
    IF \E k \in 1..Len(blks) : ~blks[k].attn_weights.set
    THEN [err |-> "AttributeError", v |-> <<>>]
    ELSE [err |-> "none", v |-> [k \in 1..Len(blks) |-> blks[k].attn_weights]]

----------------------------------------------------------------------------
(* QueryKeySelfAttention *)

\* a mutant: the operands of the divisibility test are swapped
divisible_swapped(input_dim, n_heads) == n_heads % input_dim = 0

\* assert input_dim % n_heads == 0
divisible(input_dim, n_heads) == input_dim % n_heads = 0

QueryKeySelfAttention_init(a) ==
    IF ~divisible(a.input_dim, a.n_heads)
    THEN [err |-> "AssertionError", head_dim |-> -1, n_heads |-> -1,
          qk_proj |-> Module("qk_proj", -1, "Linear", 0, 0, NoResize)]
    ELSE [err |-> "none",
          head_dim |-> a.input_dim \div a.n_heads,
          n_heads |-> a.n_heads,
          qk_proj |-> Module("qk_proj", -1, "Linear", a.input_dim, a.input_dim * 2, NoResize)]

\* einops.rearrange(t, "b m (h d) -> b h m d", h = n_heads): d = width / h
HeadDim(t, h) == IF Ok(t) /\ Width(t) % h = 0 THEN Width(t) \div h ELSE -1

\* forward on X of shape (seq, width(X)): output "b s (h d)"
QueryKeySelfAttention_forward(s, X) ==
    LET qk == Linear(s.qk_proj.inp, s.qk_proj.out, X)
        q == IF Ok(qk) THEN SetWidth(qk, Width(qk) \div 2) ELSE qk
        dq == HeadDim(q, s.n_heads)
        dx == HeadDim(X, s.n_heads)
    IN IF ~Ok(qk) THEN qk
       ELSE IF dq = -1 \/ dx = -1 THEN Raise("EinopsError")
       ELSE Note(SetWidth(X, s.n_heads * dx), "attention", -1, Width(X))

----------------------------------------------------------------------------
(* Constructor arguments *)

Cols(n) == [i \in 1..n |-> i]
OptionalCols(max) == {None} \cup {Some(Cols(n)) : n \in 0..max}
OptionalDims == {None} \cup {Some(l) : l \in SeqsUpTo(MlpDims, 0, MaxMlpLen)}

\* embed_input: (col, val, dim) for at least one categorical column
EmbedInputs ==
    UNION {{[i \in 1..n |-> [col |-> i, dim |-> d[i]]] : d \in [1..n -> EmbedDims]} :
           n \in 1..MaxCat}

TabResnetArgs ==
    [embed_input : EmbedInputs,
     blocks_dims : SeqsUpTo(Dims, 0, MaxBlocksLen),
     mlp_hidden_dims : OptionalDims,
     continuous_cols : OptionalCols(MaxCont),
     batchnorm_cont : BOOLEAN,
     concat_cont_first : BOOLEAN]

\* with_cls_token stands for "cls_token" in column_idx
TabTransformerArgs ==
    [with_cls_token : BOOLEAN,
     cat_embed_input : OptionalCols(MaxCat),
     continuous_cols : OptionalCols(MaxCont),
     embed_continuous : BOOLEAN,
     input_dim : 1..MaxInputDim,
     n_heads : 1..MaxHeads,
     n_blocks : 0..MaxBlocks,
     mlp_hidden_dims : OptionalDims]

QueryKeySelfAttentionArgs ==
    [input_dim : 1..MaxInputDim, n_heads : 1..MaxHeads]

Unconstructed == [err |-> "unconstructed"]
NoList == [err |-> "unset", v |-> <<>>]

----------------------------------------------------------------------------
(* The state machine: an object is constructed, then used *)

Init ==
    /\ cls \in {"TabResnet", "TabTransformer", "QueryKeySelfAttention"}
    /\ args \in CASE cls = "TabResnet" -> TabResnetArgs
                  [] cls = "TabTransformer" -> TabTransformerArgs
                  [] OTHER -> QueryKeySelfAttentionArgs
    /\ pc = "new"
    /\ self = Unconstructed
    /\ out = NoTensor
    /\ weights = NoList

Constructed(s) == IF s.err = "none" THEN "constructed" ELSE "raised"

NewTabResnet ==
    /\ cls = "TabResnet" /\ pc = "new"
    /\ self' = TabResnet_init(args)
    /\ pc' = Constructed(self')
    /\ UNCHANGED <<cls, args, out, weights>>

CallTabResnet ==
    /\ cls = "TabResnet" /\ pc = "constructed"
    /\ out' = TabResnet_forward(self, args)
    /\ UNCHANGED <<cls, args, pc, self, weights>>

NewTabTransformer ==
    /\ cls = "TabTransformer" /\ pc = "new"
    /\ self' = TabTransformer_init(args)
    /\ pc' = Constructed(self')
    /\ UNCHANGED <<cls, args, out, weights>>

CallTabTransformer ==
    /\ cls = "TabTransformer" /\ pc = "constructed"
    /\ LET r == TabTransformer_forward(self, args)
       IN /\ out' = r.out
          /\ self' = [self EXCEPT !.transformer_blks = r.blks]
    /\ UNCHANGED <<cls, args, pc, weights>>

ReadAttentionWeights ==
    /\ cls = "TabTransformer" /\ pc = "constructed"
    /\ weights' = attention_weights(self.transformer_blks)
    /\ UNCHANGED <<cls, args, pc, self, out>>

NewQueryKeySelfAttention ==
    /\ cls = "QueryKeySelfAttention" /\ pc = "new"
    /\ self' = QueryKeySelfAttention_init(args)
    /\ pc' = Constructed(self')
    /\ UNCHANGED <<cls, args, out, weights>>

CallQueryKeySelfAttention ==
    /\ cls = "QueryKeySelfAttention" /\ pc = "constructed"
    /\ \E seq \in 1..MaxSeq :
          out' = QueryKeySelfAttention_forward(self, Tensor(<<seq, args.input_dim>>, <<>>))
    /\ UNCHANGED <<cls, args, pc, self, weights>>

Next ==
    \/ NewTabResnet
    \/ CallTabResnet
    \/ NewTabTransformer
    \/ CallTabTransformer
    \/ ReadAttentionWeights
    \/ NewQueryKeySelfAttention
    \/ CallQueryKeySelfAttention

Spec == Init /\ [][Next]_vars

----------------------------------------------------------------------------
(* Properties *)

IsResnet == cls = "TabResnet" /\ pc = "constructed"
IsTransformer == cls = "TabTransformer" /\ pc = "constructed"
Called == out # NoTensor

\* position of the first entry of hist made by op, 0 when there is none
Pos(hist, op) ==
    IF \E i \in 1..Len(hist) : hist[i].op = op
    THEN CHOOSE i \in 1..Len(hist) :
            hist[i].op = op /\ \A j \in 1..(i - 1) : hist[j].op # op
    ELSE 0

\* the width TabResnet is documented to return
ResnetWidth(a) ==
    LET after_resnet == IF a.concat_cont_first THEN Last(a.blocks_dims)
                        ELSE (IF a.continuous_cols.isNone THEN 0
                              ELSE Len(a.continuous_cols.v)) + Last(a.blocks_dims)
    IN IF a.mlp_hidden_dims.isNone \/ a.mlp_hidden_dims.v = <<>> THEN after_resnet
       ELSE Last(a.mlp_hidden_dims.v)

\* C1: a constructed TabResnet has output_dim = blocks_dims[-1] when the
\* continuous columns are concatenated first, len(continuous_cols) +
\* blocks_dims[-1] when not, the last MLP dimension when an MLP is configured;
\* forward returns a tensor of exactly that width.
C1_OutputWidth ==
    IsResnet =>
        /\ self.output_dim = ResnetWidth(args)
        /\ Called => (Ok(out) /\ out.shape = <<self.output_dim>>)

C1_Witness ==
    /\ IsResnet /\ Called /\ Ok(out)
    /\ ~args.concat_cont_first
    /\ ~args.continuous_cols.isNone /\ Len(args.continuous_cols.v) >= 1
    /\ ~args.mlp_hidden_dims.isNone /\ args.mlp_hidden_dims.v # <<>>
    /\ out.shape = <<self.output_dim>>

\* C2: for a TabTransformer with at least one feature, the width forward feeds
\* into the final MLP is the width _compute_attn_output_dim gave at construction
\* (the MLP's first dimension), and the returned tensor is output_dim wide.
C2_AttnWidth ==
    (IsTransformer /\ Called
     /\ Len(args.cat_embed_input.v) + Len(args.continuous_cols.v) >= 1) =>
        /\ Ok(out)
        /\ Last(out.hist).op = "transformer_mlp"
        /\ Last(out.hist).inw = self.attn_output_dim
        /\ self.mlp_hidden_dims[1] = self.attn_output_dim
        /\ out.shape = <<self.output_dim>>

C2_Witness ==
    /\ IsTransformer /\ Called /\ Ok(out)
    /\ args.with_cls_token /\ ~args.embed_continuous
    /\ Len(args.cat_embed_input.v) >= 1 /\ Len(args.continuous_cols.v) >= 1
    /\ Last(out.hist).inw = self.attn_output_dim
    /\ out.shape = <<self.output_dim>>

\* C3: constructing a TabResnet with fewer than two blocks_dims raises
\* ValueError before any layer is built.
C3_ShortBlocksRejected ==
    (cls = "TabResnet" /\ pc # "new" /\ Len(args.blocks_dims) < 2) =>
        /\ pc = "raised"
        /\ self.err = "ValueError"
        /\ self.built = <<>>

C3_Witness ==
    /\ cls = "TabResnet" /\ pc = "raised" /\ Len(args.blocks_dims) = 1
    /\ self.err = "ValueError" /\ self.built = <<>>

\* C4 as stated: constructing a TabTransformer fails whenever n_heads does not
\* divide input_dim, whatever n_blocks is.
C4_Original ==
    (cls = "TabTransformer" /\ pc # "new" /\ args.input_dim % args.n_heads # 0) =>
        pc = "raised"

\* C4 amended: constructing a TabTransformer with at least one transformer
\* block fails whenever n_heads does not divide input_dim.
C4_IndivisibleRejected ==
    (cls = "TabTransformer" /\ pc # "new" /\ args.input_dim % args.n_heads # 0
     /\ args.n_blocks >= 1) =>
        pc = "raised"

C4_Witness ==
    /\ cls = "TabTransformer" /\ pc = "raised" /\ self.err = "AssertionError"
    /\ args.input_dim % args.n_heads # 0 /\ args.n_blocks >= 1

\* C5: constructing a QueryKeySelfAttention fails when input_dim is not
\* divisible by n_heads, and a constructed one has head_dim * n_heads = input_dim.
C5_HeadDim ==
    (cls = "QueryKeySelfAttention" /\ pc # "new") =>
        /\ args.input_dim % args.n_heads # 0 => pc = "raised"
        /\ pc = "constructed" => self.head_dim * self.n_heads = args.input_dim

C5_Witness ==
    /\ cls = "QueryKeySelfAttention" /\ pc = "raised"
    /\ args.input_dim % args.n_heads # 0
    /\ self.err = "AssertionError"

\* C6: a TabTransformer with continuous columns, no categorical column and
\* embed_continuous False raises ValueError; with embed_continuous True or a
\* categorical column no ValueError is raised.
C6_ContinuousOnly ==
    (cls = "TabTransformer" /\ pc # "new") =>
        /\ (Len(args.continuous_cols.v) >= 1 /\ Len(args.cat_embed_input.v) = 0
            /\ ~args.embed_continuous)
              => (pc = "raised" /\ self.err = "ValueError")
        /\ (args.embed_continuous \/ Len(args.cat_embed_input.v) >= 1)
              => self.err # "ValueError"

C6_Witness ==
    /\ cls = "TabTransformer" /\ pc = "raised" /\ self.err = "ValueError"
    /\ Len(args.continuous_cols.v) >= 1 /\ Len(args.cat_embed_input.v) = 0
    /\ ~args.embed_continuous

IsBlock(m) == m.kind = "BasicBlock"
IsBlockOp(h) == h.op = "block"

\* C7: blocks_dims of n >= 2 widths gives n-1 residual blocks, in list order,
\* block i built for and fed width blocks_dims[i], returning blocks_dims[i+1].
C7_Blocks ==
    IsResnet =>
        LET dims == args.blocks_dims
            blocks == SelectSeq(self.tab_resnet, IsBlock)
            applied == SelectSeq(out.hist, IsBlockOp)
        IN /\ Len(blocks) = Len(dims) - 1
           /\ \A i \in 1..Len(blocks) :
                 /\ blocks[i].idx = i - 1
                 /\ blocks[i].inp = dims[i]
                 /\ blocks[i].out = dims[i + 1]
           /\ (Called /\ Ok(out)) =>
                 /\ Len(applied) = Len(dims) - 1
                 /\ \A i \in 1..Len(applied) :
                       /\ applied[i].idx = i - 1
                       /\ applied[i].inw = dims[i]
                       /\ applied[i].outw = dims[i + 1]

C7_Witness ==
    /\ IsResnet /\ Called /\ Ok(out)
    /\ Len(args.blocks_dims) = 3
    /\ args.blocks_dims[1] # args.blocks_dims[2]
    /\ args.blocks_dims[2] # args.blocks_dims[3]
    /\ Len(SelectSeq(out.hist, IsBlockOp)) = 2

\* C8: with continuous columns, concat_cont_first True concatenates them to the
\* embeddings before the dense resnet; False passes the embeddings alone through
\* the resnet and concatenates the continuous columns to its output; the MLP,
\* when configured, is applied last.
C8_ContPlacement ==
    (IsResnet /\ Called /\ ~args.continuous_cols.isNone) =>
        LET h == out.hist
            emb == SumSeq([i \in 1..Len(args.embed_input) |-> args.embed_input[i].dim])
            cont == Len(args.continuous_cols.v)
            cat == Pos(h, "cat_cont")
            res == Pos(h, "tab_resnet")
            mlp == Pos(h, "tab_resnet_mlp")
        IN /\ Ok(out)
           /\ Pos(h, "embed") = 1 /\ cat > 0 /\ res > 0
           /\ args.concat_cont_first =>
                 /\ cat = 2 /\ cat < res
                 /\ h[cat].inw = emb /\ h[cat].outw = emb + cont
                 /\ h[res].inw = emb + cont
           /\ ~args.concat_cont_first =>
                 /\ res < cat /\ cat = res + 1
                 /\ h[res].inw = emb
                 /\ h[cat].inw = h[res].outw /\ h[cat].outw = h[res].outw + cont
           /\ ~args.mlp_hidden_dims.isNone =>
                 /\ mlp = Len(h) /\ cat < mlp /\ res < mlp
                 /\ h[mlp].inw = (IF args.concat_cont_first THEN h[res].outw
                                  ELSE h[cat].outw)
           /\ args.mlp_hidden_dims.isNone => mlp = 0

C8_Witness ==
    /\ IsResnet /\ Called /\ Ok(out)
    /\ ~args.concat_cont_first
    /\ ~args.continuous_cols.isNone /\ Len(args.continuous_cols.v) = 2
    /\ ~args.mlp_hidden_dims.isNone /\ args.mlp_hidden_dims.v # <<>>
    /\ Pos(out.hist, "tab_resnet") < Pos(out.hist, "cat_cont")
    /\ Pos(out.hist, "tab_resnet_mlp") = Len(out.hist)

\* the widths of the layers of an MLP, read off the layers
LayerDims(mlp) == [i \in 1..Len(mlp) |-> <<mlp[i].inp, mlp[i].out>>]
PairDims(d) == [i \in 1..(Len(d) - 1) |-> <<d[i], d[i + 1]>>]

\* C9 as stated: without mlp_hidden_dims the MLP's dimensions are [l, 4l, 2l]
\* and output_dim is 2l; with mlp_hidden_dims provided they are [l] followed by
\* the list and output_dim is its last value.
C9_Original ==
    IsTransformer =>
        LET l == self.attn_output_dim
            given == args.mlp_hidden_dims
        IN /\ given.isNone =>
                 /\ LayerDims(self.transformer_mlp) = PairDims(<<l, 4 * l, 2 * l>>)
                 /\ self.output_dim = 2 * l
           /\ ~given.isNone =>
                 /\ LayerDims(self.transformer_mlp) = PairDims(<<l>> \o given.v)
                 /\ given.v # <<>> => self.output_dim = Last(given.v)

\* C9 amended: with mlp_hidden_dims None or an empty list the MLP's dimensions
\* are [l, 4l, 2l] and output_dim is 2l; with a non-empty list they are [l]
\* followed by the list and output_dim is its last value.
C9_MlpDims ==
    IsTransformer =>
        LET l == self.attn_output_dim
            given == args.mlp_hidden_dims
        IN /\ (given.isNone \/ given.v = <<>>) =>
                 /\ LayerDims(self.transformer_mlp) = PairDims(<<l, 4 * l, 2 * l>>)
                 /\ self.output_dim = 2 * l
           /\ (~given.isNone /\ given.v # <<>>) =>
                 /\ LayerDims(self.transformer_mlp) = PairDims(<<l>> \o given.v)
                 /\ self.output_dim = Last(given.v)

C9_Witness ==
    /\ IsTransformer
    /\ ~args.mlp_hidden_dims.isNone /\ args.mlp_hidden_dims.v = <<>>
    /\ self.attn_output_dim >= 2
    /\ Len(self.transformer_mlp) = 2
    /\ self.output_dim = 2 * self.attn_output_dim

\* C10: read after a forward pass, attention_weights is a list of n_blocks
\* entries, the i-th being the weights of the i-th block applied (H = n_heads
\* heads over F = the sequence length of the block's input).
C10_AttentionWeights ==
    [][(IsTransformer /\ weights' # weights) =>
          /\ Ok(out) => weights'.err = "none"
          /\ weights'.err = "none" =>
                /\ Len(weights'.v) = args.n_blocks
                /\ \A i \in 1..Len(weights'.v) :
                      /\ weights'.v[i].set
                      /\ weights'.v[i].blk = i - 1
                      /\ weights'.v[i].H = args.n_heads
                      /\ weights'.v[i] = self.transformer_blks[i].attn_weights]_vars

C10_Witness ==
    /\ IsTransformer /\ Called /\ Ok(out)
    /\ args.n_blocks >= 2
    /\ weights.err = "none" /\ Len(weights.v) = args.n_blocks
    /\ weights.v[1].blk = 0 /\ weights.v[2].blk = 1

====
